---- MODULE Spec2Model ----
(***************************************************************************)
(* Model of PLCHandler (src/plc_handler.py): the connection state machine, *)
(* the raw Data-Block / Merker accessors and the typed BOOL / INT / REAL   *)
(* operations built on snap7.util, together with the device the transport  *)
(* talks to.  One action is one public call of a single-threaded caller.   *)
(***************************************************************************)
EXTENDS Integers, Sequences, FiniteSets, TLC

\* ------------------------------------------------------------- bounds
\* Number of public calls made after construction.
MaxOps == 2
\* Data Blocks the device holds: 1..NumDB.
NumDB == 2
\* Bytes in every Data Block and in the Merker area of the device.
MemSize == 4

\* ------------------------------------------------------------- values
None == 0
Byte == 0..255
DBs == 1..NumDB
Cells == 0..(MemSize - 1)

\* The bit offsets of a byte.
BitOffsets == 0..7
\* A REAL value is carried as the fields of its IEEE-754 single precision
\* pattern: sign (1 bit), exponent (8 bits), mantissa (23 bits).
F32(s, e, m) == [s |-> s, e |-> e, m |-> m]
\* Contents a device byte may hold before the first call.
InitBytes == {0, 165}

\* What a call on the real transport does: it returns, or raises
\* Snap7Exception, or raises some other exception.
Faults == {"ok", "snap7", "other"}
\* What the transport does during connect(): the handle is created and
\* connect() returns with get_connected() true ("ok"); Client() raises;
\* connect() raises; get_connected() is false and destroy() returns or raises.
ConnOutcomes == {"ok", "create_other", "connect_snap7", "connect_other",
                 "refused", "refused_destroy_other"}
\* What the transport does during disconnect(): both calls return, or
\* disconnect() raises, or destroy() raises.
DiscOutcomes == {"ok", "disconnect_other", "destroy_other"}

\* host, lib: the configuration (PLC_IP_ADDRESS set, python-snap7 imported).
\* is_connected, client: the fields of the PLCHandler object.
\* created, destroyed: the transport handles made so far (1..created) and
\* those destroy() has released.  mem, mmem: the device's Data Blocks and
\* Merker area.  last, calls: the latest public call with its outcome, and
\* the transport calls it made.  prev, prevexc: the operation called before
\* it and the exception that one raised.
\* nops: the number of public calls made.  thr: the callers that run
\* write_bool concurrently on the one shared client, each with its position,
\* its arguments, its local buffer and its outcome.  hist: the steps those
\* callers have taken, in order.
VARIABLES host, lib, is_connected, client, created, destroyed,
          mem, mmem, last, calls, prev, prevexc, nops, thr, hist

vars == <<nops, host, lib, is_connected, client, created, destroyed,
          mem, mmem, last, calls, prev, prevexc, thr, hist>>

\* ------------------------------------------------------------- helpers
RECURSIVE Pow2(_)
Pow2(n) == IF n <= 0 THEN 1 ELSE 2 * Pow2(n - 1)

\* A call made on the transport library: what was called, on which handle,
\* with what, and whether it returned ("ok") or raised ("snap7", "other").
\* get_connected returning False is "refused".
Call(f, h, db, start, size, data, res) ==
    [f |-> f, h |-> h, db |-> db, start |-> start, size |-> size,
     data |-> data, res |-> res]

Ctl(f, h, res) == Call(f, h, 0, 0, 0, <<>>, res)

\* The connection part of the object: what connect/disconnect work on.
Conn(ic, cl, cr, ds) ==
    [is_connected |-> ic, client |-> cl, created |-> cr, destroyed |-> ds]

Here == Conn(is_connected, client, created, destroyed)

\* A simulated buffer that is filled with 0xFF bytes instead of zeros.
Zeros_Filled(size) == [i \in 1..(IF size > 0 THEN size ELSE 0) |-> 255]

\* bytearray([0] * size)
Zeros(size) == [i \in 1..(IF size > 0 THEN size ELSE 0) |-> 0]

\* What the message of an exception names of the access that failed: the
\* address space, the Data Block numbers and the byte offsets that appear in
\* its text.  NoMessage names nothing.
Message(space, dbs, offs) == [space |-> space, db |-> dbs, off |-> offs]
NoMessage == Message("", {}, {})

\* ------------------------------------------------------------- connect
\* Every operation returns [c: the object afterwards, exc, ret, msg: what
\* the message of its exception names, calls].
\* lib: _S7Client_actual is not None; host: PLC_IP_ADDRESS is set.

\* "if self.is_connected: return True"
connect_already(c) ==
    [c |-> c, exc |-> "none", ret |-> TRUE, msg |-> NoMessage, calls |-> <<>>]

\* A simulated connection that puts a placeholder object in self.client.
connect_simulated_SetsClient(c) ==
    [c |-> [c EXCEPT !.is_connected = TRUE, !.client = c.created + 1,
                     !.created = @ + 1],
     exc |-> "none", ret |-> TRUE, msg |-> NoMessage, calls |-> <<>>]

\* The simulated connection: is_connected = True, no client.
connect_simulated(c) ==
    [c |-> [c EXCEPT !.is_connected = TRUE],
     exc |-> "none", ret |-> TRUE, msg |-> NoMessage, calls |-> <<>>]

\* The except clauses of connect() without "self.client = None".
connect_failed_KeepsClient(c, cs) ==
    [c |-> [c EXCEPT !.is_connected = FALSE],
     exc |-> "PLCConnectionError", ret |-> "none",
     msg |-> NoMessage, calls |-> cs]

\* The two except clauses of connect(): the client is dropped, the flag is
\* cleared and PLCConnectionError is raised.
connect_failed(c, cs) ==
    [c |-> [c EXCEPT !.client = None, !.is_connected = FALSE],
     exc |-> "PLCConnectionError", ret |-> "none",
     msg |-> NoMessage, calls |-> cs]

\* The try block of connect().  A PLCConnectionError raised inside it (the
\* refused branch) is caught by "except Exception" and raised again.
connect_real(c, o) ==
    LET h == c.created + 1
        made == [c EXCEPT !.created = h, !.client = h]
        fault == IF o = "connect_snap7" THEN "snap7" ELSE "other"
    IN CASE o = "ok" ->
              [c |-> [made EXCEPT !.is_connected = TRUE],
               exc |-> "none", ret |-> TRUE, msg |-> NoMessage,
               calls |-> <<Ctl("Client", h, "ok"), Ctl("connect", h, "ok"),
                           Ctl("get_connected", h, "ok")>>]
         [] o = "create_other" ->
              connect_failed(c, <<Ctl("Client", h, "other")>>)
         [] o \in {"connect_snap7", "connect_other"} ->
              connect_failed(made, <<Ctl("Client", h, "ok"),
                                     Ctl("connect", h, fault)>>)
         [] o = "refused" ->
              connect_failed([made EXCEPT !.destroyed = @ \cup {h}],
                             <<Ctl("Client", h, "ok"), Ctl("connect", h, "ok"),
                               Ctl("get_connected", h, "refused"),
                               Ctl("destroy", h, "ok")>>)
         [] OTHER ->
              connect_failed(made,
                             <<Ctl("Client", h, "ok"), Ctl("connect", h, "ok"),
                               Ctl("get_connected", h, "refused"),
                               Ctl("destroy", h, "other")>>)

\* connect() without its "already connected" early return.
connect_NoEarlyReturn(c, o) ==
    IF ~lib \/ ~host THEN connect_simulated(c)
    ELSE connect_real(c, o)

\* connect() whose simulated branch tests the library alone, not the host.
connect_IgnoresHost(c, o) ==
    IF c.is_connected THEN connect_already(c)
    ELSE IF ~lib THEN connect_simulated(c)
    ELSE connect_real(c, o)

\* connect() whose simulated branch tests the host alone, not the library.
connect_IgnoresLib(c, o) ==
    IF c.is_connected THEN connect_already(c)
    ELSE IF ~host THEN connect_simulated(c)
    ELSE connect_real(c, o)

connect(c, o) ==
    IF c.is_connected THEN connect_already(c)
    ELSE IF ~lib \/ ~host THEN connect_simulated(c)
    ELSE connect_real(c, o)

\* The outcomes of the transport that matter for a connect() from c.
ConnChoices(c) ==
    IF c.is_connected \/ ~lib \/ ~host THEN {"ok"} ELSE ConnOutcomes

\* ------------------------------------------------------------- disconnect
\* The calls of disconnect() on a real client without the try / except
\* around them.
teardown_Raises(c, h, o) ==
    CASE o = "ok" ->
           [c |-> [c EXCEPT !.destroyed = @ \cup {h}],
            exc |-> "none", ret |-> "none", msg |-> NoMessage,
            calls |-> <<Ctl("disconnect", h, "ok"), Ctl("destroy", h, "ok")>>]
      [] o = "disconnect_other" ->
           [c |-> c, exc |-> "Exception", ret |-> "none", msg |-> NoMessage,
            calls |-> <<Ctl("disconnect", h, "other")>>]
      [] OTHER ->
           [c |-> c, exc |-> "Exception", ret |-> "none", msg |-> NoMessage,
            calls |-> <<Ctl("disconnect", h, "ok"), Ctl("destroy", h, "other")>>]

\* The try block of disconnect() on a real client: any exception is caught
\* and printed.
teardown(c, h, o) ==
    CASE o = "ok" ->
           [c |-> [c EXCEPT !.destroyed = @ \cup {h}],
            exc |-> "none", ret |-> "none", msg |-> NoMessage,
            calls |-> <<Ctl("disconnect", h, "ok"), Ctl("destroy", h, "ok")>>]
      [] o = "disconnect_other" ->
           [c |-> c, exc |-> "none", ret |-> "none", msg |-> NoMessage,
            calls |-> <<Ctl("disconnect", h, "other")>>]
      [] OTHER ->
           [c |-> c, exc |-> "none", ret |-> "none", msg |-> NoMessage,
            calls |-> <<Ctl("disconnect", h, "ok"), Ctl("destroy", h, "other")>>]

\* disconnect() whose real branch clears the flag but keeps self.client.
disconnect_KeepsClient(c, o) ==
    IF c.is_connected /\ c.client # None
    THEN LET t == IF ~lib
                  THEN [c |-> c, exc |-> "none", ret |-> "none",
                        msg |-> NoMessage, calls |-> <<>>]
                  ELSE teardown(c, c.client, o)
         IN [t EXCEPT !.c.is_connected = FALSE]
    ELSE IF c.is_connected
    THEN [c |-> [c EXCEPT !.is_connected = FALSE, !.client = None],
          exc |-> "none", ret |-> "none", msg |-> NoMessage, calls |-> <<>>]
    ELSE [c |-> c, exc |-> "none", ret |-> "none",
          msg |-> NoMessage, calls |-> <<>>]

disconnect(c, o) ==
    IF c.is_connected /\ c.client # None
    THEN LET t == IF ~lib
                  THEN [c |-> c, exc |-> "none", ret |-> "none",
                        msg |-> NoMessage, calls |-> <<>>]
                  ELSE teardown(c, c.client, o)
         IN [t EXCEPT !.c.is_connected = FALSE, !.c.client = None]
    ELSE IF c.is_connected
    THEN [c |-> [c EXCEPT !.is_connected = FALSE, !.client = None],
          exc |-> "none", ret |-> "none", msg |-> NoMessage, calls |-> <<>>]
    ELSE [c |-> c, exc |-> "none", ret |-> "none",
          msg |-> NoMessage, calls |-> <<>>]

DiscChoices(c) ==
    IF c.is_connected /\ c.client # None /\ lib THEN DiscOutcomes ELSE {"ok"}

\* ------------------------------------------------------------- _ensure_connection
\* _ensure_connection() that catches the failure of connect() and goes on.
ensure_connection_Swallows(c, o) ==
    IF ~c.is_connected
    THEN LET r == connect(c, o)
         IN [r EXCEPT !.exc = "none", !.ret = "none"]
    ELSE [c |-> c, exc |-> "none", ret |-> "none",
          msg |-> NoMessage, calls |-> <<>>]

\* "if not self.connect(): raise PLCConnectionError" on the outcome r of
\* connect(): its exception goes up, a false return is raised.
connected_or_raise(r) ==
    IF r.exc # "none" THEN r
    ELSE IF r.ret = FALSE
    THEN [r EXCEPT !.exc = "PLCConnectionError", !.ret = "none"]
    ELSE [r EXCEPT !.ret = "none"]

\* _ensure_connection() that opens a connection on every call, whether the
\* client is connected or not.
ensure_connection_Reconnects(c, o) ==
    connected_or_raise(connect_NoEarlyReturn(c, o))

ensure_connection(c, o) ==
    IF ~c.is_connected
    THEN connected_or_raise(connect(c, o))
    ELSE [c |-> c, exc |-> "none", ret |-> "none",
          msg |-> NoMessage, calls |-> <<>>]

\* ------------------------------------------------------------- the device
\* The controller's memory: the Data Blocks and the Merker area.
Dev(d, m) == [db |-> d, m |-> m]

\* What a range access of the device does: the transport's own fault o, or
\* an error for a negative length (the ctypes buffer cannot be built) or for
\* a range the device does not hold.
DevAccess(isdb, db, start, size, o) ==
    IF o # "ok" THEN o
    ELSE IF size < 0 THEN "other"
    ELSE IF (isdb /\ db \notin DBs) \/ start < 0 \/ start + size > MemSize
    THEN "snap7"
    ELSE "ok"

Slice(area, start, size) == [i \in 1..size |-> area[start + i - 1]]

Store(area, start, data) ==
    [i \in Cells |-> IF i >= start /\ i < start + Len(data)
                     THEN data[i - start + 1] ELSE area[i]]

\* The guard of the simulated branch without its "not self.client" test.
UseSimulation_NoClientCheck(c) == ~lib \/ ~c.is_connected

UseSimulation(c) == ~lib \/ c.client = None \/ ~c.is_connected

\* ------------------------------------------------------------- raw access
\* The start of every accessor: _ensure_connection().
\* e is the outcome of _ensure_connection(), dev the device it found.
Started(e, dev) ==
    [c |-> e.c, dev |-> dev, exc |-> e.exc, ret |-> "none",
     msg |-> NoMessage, calls |-> e.calls]

Ensured(c, dev, co) == Started(ensure_connection(c, co), dev)

\* The except clauses of an accessor that also drop the connection.
rw_failed_Demotes(b, tc, m) ==
    [b EXCEPT !.exc = "PLCReadWriteError", !.calls = Append(@, tc), !.msg = m,
              !.c.is_connected = FALSE, !.c.client = None]

\* The except clauses of an accessor that also recover from the fault: they
\* open a new handle for the next operation.
rw_failed_Recovers(b, tc, m) ==
    [b EXCEPT !.exc = "PLCReadWriteError", !.calls = Append(@, tc), !.msg = m,
              !.c.client = b.c.created + 1, !.c.created = @ + 1]

\* The except clauses of an accessor that print the fault and return an
\* empty buffer instead of raising.
rw_failed_Swallows(b, tc, m) ==
    [b EXCEPT !.ret = <<>>, !.calls = Append(@, tc)]

\* The two except clauses of an accessor: the fault is raised again as
\* PLCReadWriteError, whose message m is the accessor's own text; the object
\* is left as it is.
rw_failed(b, tc, m) ==
    [b EXCEPT !.exc = "PLCReadWriteError", !.calls = Append(@, tc), !.msg = m]

\* read_db after its _ensure_connection(), whose outcome is b.
read_db_body(b, db, start, size, ro) ==
    IF b.exc # "none" THEN b
    ELSE IF UseSimulation(b.c) THEN [b EXCEPT !.ret = Zeros(size)]
    ELSE LET f == DevAccess(TRUE, db, start, size, ro)
             tc == Call("db_read", b.c.client, db, start, size, <<>>, f)
         IN IF f = "ok"
            THEN [b EXCEPT !.ret = Slice(b.dev.db[db], start, size),
                           !.calls = Append(@, tc)]
            ELSE rw_failed(b, tc, Message("DB", {db}, {}))

read_db(c, dev, db, start, size, co, ro) ==
    read_db_body(Ensured(c, dev, co), db, start, size, ro)

\* write_db after its _ensure_connection(), whose outcome is b.
write_db_body(b, db, start, data, wo) ==
    IF b.exc # "none" THEN b
    ELSE IF UseSimulation(b.c) THEN [b EXCEPT !.ret = TRUE]
    ELSE LET f == DevAccess(TRUE, db, start, Len(data), wo)
             tc == Call("db_write", b.c.client, db, start, Len(data), data, f)
         IN IF f = "ok"
            THEN [b EXCEPT !.ret = TRUE, !.calls = Append(@, tc),
                           !.dev.db[db] = Store(@, start, data)]
            ELSE rw_failed(b, tc, Message("DB", {db}, {}))

write_db(c, dev, db, start, data, co, wo) ==
    write_db_body(Ensured(c, dev, co), db, start, data, wo)

\* read_m after its _ensure_connection(), whose outcome is b.
read_m_body(b, start, size, ro) ==
    IF b.exc # "none" THEN b
    ELSE IF UseSimulation(b.c) THEN [b EXCEPT !.ret = Zeros(size)]
    ELSE LET f == DevAccess(FALSE, 0, start, size, ro)
             tc == Call("read_area", b.c.client, 0, start, size, <<>>, f)
         IN IF f = "ok"
            THEN [b EXCEPT !.ret = Slice(b.dev.m, start, size),
                           !.calls = Append(@, tc)]
            ELSE rw_failed(b, tc, Message("M", {}, {start}))

read_m(c, dev, start, size, co, ro) ==
    read_m_body(Ensured(c, dev, co), start, size, ro)

\* write_m that addresses the Data Block area (0x84, block 1) instead of the
\* Merker area (0x83).
write_m_body_WrongArea(b, start, data, wo) ==
    IF b.exc # "none" THEN b
    ELSE IF UseSimulation(b.c) THEN [b EXCEPT !.ret = TRUE]
    ELSE LET f == DevAccess(TRUE, 1, start, Len(data), wo)
             tc == Call("write_area", b.c.client, 1, start, Len(data), data, f)
         IN IF f = "ok"
            THEN [b EXCEPT !.ret = TRUE, !.calls = Append(@, tc),
                           !.dev.db[1] = Store(@, start, data)]
            ELSE rw_failed(b, tc, Message("M", {}, {start}))

\* write_m after its _ensure_connection(), whose outcome is b.
write_m_body(b, start, data, wo) ==
    IF b.exc # "none" THEN b
    ELSE IF UseSimulation(b.c) THEN [b EXCEPT !.ret = TRUE]
    ELSE LET f == DevAccess(FALSE, 0, start, Len(data), wo)
             tc == Call("write_area", b.c.client, 0, start, Len(data), data, f)
         IN IF f = "ok"
            THEN [b EXCEPT !.ret = TRUE, !.calls = Append(@, tc),
                           !.dev.m = Store(@, start, data)]
            ELSE rw_failed(b, tc, Message("M", {}, {start}))

write_m(c, dev, start, data, co, wo) ==
    write_m_body(Ensured(c, dev, co), start, data, wo)

\* The transport outcomes that matter for a call that makes one access, or a
\* read and then a write, from c: <<connect, access>>, <<connect, read, write>>.
\* Once one step has faulted the later ones are not reached.
IoChoices(c) ==
    IF lib /\ host /\ (c.is_connected => c.client # None) THEN Faults ELSE {"ok"}

Plan1(c) ==
    {<<co, "ok">> : co \in ConnChoices(c) \ {"ok"}}
        \cup {<<"ok", io>> : io \in IoChoices(c)}

Plan2(c) ==
    {<<co, "ok", "ok">> : co \in ConnChoices(c) \ {"ok"}}
        \cup {<<"ok", ro, "ok">> : ro \in IoChoices(c) \ {"ok"}}
        \cup {<<"ok", "ok", wo>> : wo \in IoChoices(c)}

\* ------------------------------------------------------------- snap7.util
\* get_bool that tests the whole byte instead of the masked bit.
get_bool_NonZero(data, bit) ==
    IF bit < 0 THEN [exc |-> "ValueError", ret |-> "none"]
    ELSE IF Len(data) = 0 THEN [exc |-> "IndexError", ret |-> "none"]
    ELSE [exc |-> "none", ret |-> (data[1] # 0)]

\* get_bool(data, 0, bit): [exc, ret].  1 << bit raises for a negative bit,
\* data[0] raises on an empty buffer.
get_bool(data, bit) ==
    IF bit < 0 THEN [exc |-> "ValueError", ret |-> "none"]
    ELSE IF Len(data) = 0 THEN [exc |-> "IndexError", ret |-> "none"]
    ELSE [exc |-> "none", ret |-> ((data[1] \div Pow2(bit)) % 2 = 1)]

\* set_bool that stores the bit alone instead of changing it in the byte read.
set_bool_Overwrite(data, bit, value) ==
    IF bit < 0 THEN [exc |-> "ValueError", data |-> data]
    ELSE IF Len(data) = 0 THEN [exc |-> "IndexError", data |-> data]
    ELSE IF bit > 7 /\ value THEN [exc |-> "ValueError", data |-> data]
    ELSE [exc |-> "none",
          data |-> [data EXCEPT ![1] = IF value /\ bit <= 7 THEN Pow2(bit) ELSE 0]]

\* set_bool(data, 0, bit, value): [exc, data].  The byte is left alone when
\* the bit already has the value, else 1 << bit is added or subtracted; a
\* bytearray item outside 0..255 raises ValueError.
\* set_bool that adds or subtracts 1 << bit without looking at the bit the
\* byte holds.
set_bool_Blind(data, bit, value) ==
    IF bit < 0 THEN [exc |-> "ValueError", data |-> data]
    ELSE IF Len(data) = 0 THEN [exc |-> "IndexError", data |-> data]
    ELSE LET b == IF value THEN data[1] + Pow2(bit) ELSE data[1] - Pow2(bit)
         IN IF b \in Byte
            THEN [exc |-> "none", data |-> [data EXCEPT ![1] = b]]
            ELSE [exc |-> "ValueError", data |-> data]

set_bool(data, bit, value) ==
    LET cur == get_bool(data, bit)
    IN IF cur.exc # "none" THEN [exc |-> cur.exc, data |-> data]
       ELSE IF cur.ret = value THEN [exc |-> "none", data |-> data]
       ELSE LET b == IF value THEN data[1] + Pow2(bit) ELSE data[1] - Pow2(bit)
            IN IF b \in Byte
               THEN [exc |-> "none", data |-> [data EXCEPT ![1] = b]]
               ELSE [exc |-> "ValueError", data |-> data]

\* get_int(data, 0): struct.unpack('>h').
\* get_int that unpacks the two bytes as an unsigned word ('>H').
get_int_Unsigned(data) ==
    IF Len(data) < 2 THEN [exc |-> "IndexError", ret |-> "none"]
    ELSE [exc |-> "none", ret |-> data[1] * 256 + data[2]]

\* get_int that takes the first byte as the low-order one ('<h').
get_int_LittleEndian(data) ==
    IF Len(data) < 2 THEN [exc |-> "IndexError", ret |-> "none"]
    ELSE LET u == data[2] * 256 + data[1]
         IN [exc |-> "none", ret |-> IF u >= 32768 THEN u - 65536 ELSE u]

get_int(data) ==
    IF Len(data) < 2 THEN [exc |-> "IndexError", ret |-> "none"]
    ELSE LET u == data[1] * 256 + data[2]
         IN [exc |-> "none", ret |-> IF u >= 32768 THEN u - 65536 ELSE u]

\* set_int(buffer, 0, value): struct.pack('>h') into a 2-byte buffer.
set_int(value) ==
    IF value < -32768 \/ value > 32767
    THEN [exc |-> "struct.error", data |-> <<0, 0>>]
    ELSE LET u == value % 65536
         IN [exc |-> "none", data |-> <<u \div 256, u % 256>>]

\* get_real(data, 0): struct.unpack('>f'): the sign is the top bit of the
\* first byte, the exponent its other seven bits and the top bit of the
\* second byte, the mantissa the remaining 23 bits.
get_real(data) ==
    IF Len(data) < 4 THEN [exc |-> "struct.error", ret |-> "none"]
    ELSE [exc |-> "none",
          ret |-> F32(data[1] \div 128,
                      (data[1] % 128) * 2 + data[2] \div 128,
                      ((data[2] % 128) * 256 + data[3]) * 256 + data[4])]

\* set_real(buffer, 0, value): struct.pack('>f') into a 4-byte buffer.
\* set_real that packs the value low-order byte first ('<f').
set_real_LittleEndian(value) ==
    [exc |-> "none",
     data |-> <<value.m % 256,
                (value.m \div 256) % 256,
                (value.e % 2) * 128 + value.m \div 65536,
                value.s * 128 + value.e \div 2>>]

set_real(value) ==
    [exc |-> "none",
     data |-> <<value.s * 128 + value.e \div 2,
                (value.e % 2) * 128 + value.m \div 65536,
                (value.m \div 256) % 256,
                value.m % 256>>]

\* ------------------------------------------------------------- typed access
\* The typed reads decode the outcome r of their read_db: the codec of
\* snap7.util, or the constant the stand-in codec returns without the library.
decode_real(r) ==
    IF r.exc # "none" THEN r
    ELSE IF lib
    THEN LET g == get_real(r.ret) IN [r EXCEPT !.exc = g.exc, !.ret = g.ret]
    ELSE [r EXCEPT !.ret = F32(0, 0, 0)]

decode_int(r) ==
    IF r.exc # "none" THEN r
    ELSE IF lib
    THEN LET g == get_int(r.ret) IN [r EXCEPT !.exc = g.exc, !.ret = g.ret]
    ELSE [r EXCEPT !.ret = 0]

decode_bool(r, bit) ==
    IF r.exc # "none" THEN r
    ELSE IF lib
    THEN LET g == get_bool(r.ret, bit) IN [r EXCEPT !.exc = g.exc, !.ret = g.ret]
    ELSE [r EXCEPT !.ret = FALSE]

read_real(c, dev, db, off, co, ro) ==
    decode_real(read_db(c, dev, db, off, 4, co, ro))

write_real(c, dev, db, off, value, co, wo) ==
    LET s == IF lib THEN set_real(value) ELSE [exc |-> "none", data |-> Zeros(4)]
    IN IF s.exc # "none"
       THEN [c |-> c, dev |-> dev, exc |-> s.exc, ret |-> "none",
             msg |-> NoMessage, calls |-> <<>>]
       ELSE write_db(c, dev, db, off, s.data, co, wo)

read_int(c, dev, db, off, co, ro) ==
    decode_int(read_db(c, dev, db, off, 2, co, ro))

\* write_int that reads the two bytes before it writes them, as write_bool
\* does with its byte.
write_int_ReadsFirst(c, dev, db, off, value, co, wo) ==
    LET s == IF lib THEN set_int(value) ELSE [exc |-> "none", data |-> Zeros(2)]
        r == read_db(c, dev, db, off, 2, co, "ok")
    IN IF s.exc # "none"
       THEN [c |-> c, dev |-> dev, exc |-> s.exc, ret |-> "none",
             msg |-> NoMessage, calls |-> <<>>]
       ELSE IF r.exc # "none" THEN r
       ELSE [write_db(r.c, r.dev, db, off, s.data, "ok", wo)
                 EXCEPT !.calls = r.calls \o @]

write_int(c, dev, db, off, value, co, wo) ==
    LET s == IF lib THEN set_int(value) ELSE [exc |-> "none", data |-> Zeros(2)]
    IN IF s.exc # "none"
       THEN [c |-> c, dev |-> dev, exc |-> s.exc, ret |-> "none",
             msg |-> NoMessage, calls |-> <<>>]
       ELSE write_db(c, dev, db, off, s.data, co, wo)

read_bool(c, dev, db, off, bit, co, ro) ==
    decode_bool(read_db(c, dev, db, off, 1, co, ro), bit)

\* write_bool that goes on after a failed read of the byte: it takes the byte
\* as zero and writes it back.
write_bool_modify_WritesAnyway(r, db, off, bit, value, wo) ==
    LET cur == IF r.exc # "none" \/ Len(r.ret) = 0 THEN <<0>> ELSE r.ret
        s == IF lib THEN set_bool(cur, bit, value)
             ELSE [exc |-> "none", data |-> cur]
    IN IF s.exc # "none" THEN [r EXCEPT !.exc = s.exc, !.ret = "none"]
       ELSE [write_db([r.c EXCEPT !.is_connected = TRUE], r.dev, db, off,
                      s.data, "ok", wo)
                 EXCEPT !.calls = r.calls \o @]

\* write_bool without the test for an empty buffer: set_bool gets the buffer
\* as it was read.
write_bool_modify_NoDefence(r, db, off, bit, value, wo) ==
    IF r.exc # "none" THEN r
    ELSE LET s == IF lib THEN set_bool(r.ret, bit, value)
                  ELSE [exc |-> "none", data |-> r.ret]
         IN IF s.exc # "none" THEN [r EXCEPT !.exc = s.exc, !.ret = "none"]
            ELSE [write_db(r.c, r.dev, db, off, s.data, "ok", wo)
                      EXCEPT !.calls = r.calls \o @]

\* write_bool after its read_db of the byte, whose outcome is r: an empty
\* buffer is replaced by one zero byte, the bit is set in the buffer and the
\* buffer is written back.
write_bool_modify(r, db, off, bit, value, wo) ==
    IF r.exc # "none" THEN r
    ELSE LET cur == IF Len(r.ret) = 0 THEN <<0>> ELSE r.ret
             s == IF lib THEN set_bool(cur, bit, value)
                  ELSE [exc |-> "none", data |-> cur]
         IN IF s.exc # "none" THEN [r EXCEPT !.exc = s.exc, !.ret = "none"]
            ELSE [write_db(r.c, r.dev, db, off, s.data, "ok", wo)
                      EXCEPT !.calls = r.calls \o @]

write_bool(c, dev, db, off, bit, value, co, ro, wo) ==
    write_bool_modify(read_db(c, dev, db, off, 1, co, ro), db, off, bit, value, wo)

\* ------------------------------------------------------------- the calls
\* The record of a public call: what was called, with what, and how it ended.
Rec(op, db, off, bit, size, val, r) ==
    [op |-> op, db |-> db, off |-> off, bit |-> bit, size |-> size,
     val |-> val, exc |-> r.exc, ret |-> r.ret, msg |-> r.msg]

Done(rec, r) ==
    /\ nops' = nops + 1
    /\ is_connected' = r.c.is_connected
    /\ client' = r.c.client
    /\ created' = r.c.created
    /\ destroyed' = r.c.destroyed
    /\ last' = rec
    /\ prev' = last.op
    /\ prevexc' = last.exc
    /\ calls' = r.calls
    /\ UNCHANGED <<host, lib, thr, hist>>

Connect ==
    /\ nops < MaxOps
    /\ \E o \in ConnChoices(Here) :
        \E r \in {connect(Here, o)} :
           /\ Done(Rec("connect", 0, 0, 0, 0, 0, r), r)
           /\ UNCHANGED <<mem, mmem>>

Disconnect ==
    /\ nops < MaxOps
    /\ \E o \in DiscChoices(Here) :
        \E r \in {disconnect(Here, o)} :
           /\ Done(Rec("disconnect", 0, 0, 0, 0, 0, r), r)
           /\ UNCHANGED <<mem, mmem>>

ReadDb(dbs, offs, sizes) ==
    /\ nops < MaxOps
    /\ \E db \in dbs, off \in offs, size \in sizes, p \in Plan1(Here) :
        \E r \in {read_db(Here, Dev(mem, mmem), db, off, size, p[1], p[2])} :
           /\ Done(Rec("read_db", db, off, 0, size, 0, r), r)
           /\ mem' = r.dev.db /\ mmem' = r.dev.m

WriteDb(dbs, offs, bufs) ==
    /\ nops < MaxOps
    /\ \E db \in dbs, off \in offs, data \in bufs, p \in Plan1(Here) :
        \E r \in {write_db(Here, Dev(mem, mmem), db, off, data, p[1], p[2])} :
           /\ Done(Rec("write_db", db, off, 0, Len(data), data, r), r)
           /\ mem' = r.dev.db /\ mmem' = r.dev.m

ReadM(offs, sizes) ==
    /\ nops < MaxOps
    /\ \E off \in offs, size \in sizes, p \in Plan1(Here) :
        \E r \in {read_m(Here, Dev(mem, mmem), off, size, p[1], p[2])} :
           /\ Done(Rec("read_m", 0, off, 0, size, 0, r), r)
           /\ mem' = r.dev.db /\ mmem' = r.dev.m

WriteM(offs, bufs) ==
    /\ nops < MaxOps
    /\ \E off \in offs, data \in bufs, p \in Plan1(Here) :
        \E r \in {write_m(Here, Dev(mem, mmem), off, data, p[1], p[2])} :
           /\ Done(Rec("write_m", 0, off, 0, Len(data), data, r), r)
           /\ mem' = r.dev.db /\ mmem' = r.dev.m

ReadReal(dbs, offs) ==
    /\ nops < MaxOps
    /\ \E db \in dbs, off \in offs, p \in Plan1(Here) :
        \E r \in {read_real(Here, Dev(mem, mmem), db, off, p[1], p[2])} :
           /\ Done(Rec("read_real", db, off, 0, 4, 0, r), r)
           /\ mem' = r.dev.db /\ mmem' = r.dev.m

WriteReal(dbs, offs, vals) ==
    /\ nops < MaxOps
    /\ \E db \in dbs, off \in offs, v \in vals, p \in Plan1(Here) :
        \E r \in {write_real(Here, Dev(mem, mmem), db, off, v, p[1], p[2])} :
           /\ Done(Rec("write_real", db, off, 0, 4, v, r), r)
           /\ mem' = r.dev.db /\ mmem' = r.dev.m

ReadInt(dbs, offs) ==
    /\ nops < MaxOps
    /\ \E db \in dbs, off \in offs, p \in Plan1(Here) :
        \E r \in {read_int(Here, Dev(mem, mmem), db, off, p[1], p[2])} :
           /\ Done(Rec("read_int", db, off, 0, 2, 0, r), r)
           /\ mem' = r.dev.db /\ mmem' = r.dev.m

WriteInt(dbs, offs, vals) ==
    /\ nops < MaxOps
    /\ \E db \in dbs, off \in offs, v \in vals, p \in Plan1(Here) :
        \E r \in {write_int(Here, Dev(mem, mmem), db, off, v, p[1], p[2])} :
           /\ Done(Rec("write_int", db, off, 0, 2, v, r), r)
           /\ mem' = r.dev.db /\ mmem' = r.dev.m

ReadBool(dbs, offs, bits) ==
    /\ nops < MaxOps
    /\ \E db \in dbs, off \in offs, bit \in bits, p \in Plan1(Here) :
        \E r \in {read_bool(Here, Dev(mem, mmem), db, off, bit, p[1], p[2])} :
           /\ Done(Rec("read_bool", db, off, bit, 1, 0, r), r)
           /\ mem' = r.dev.db /\ mmem' = r.dev.m

WriteBool(dbs, offs, bits) ==
    /\ nops < MaxOps
    /\ \E db \in dbs, off \in offs, bit \in bits, v \in BOOLEAN, p \in Plan2(Here) :
        \E r \in {write_bool(Here, Dev(mem, mmem), db, off, bit, v, p[1], p[2], p[3])} :
           /\ Done(Rec("write_bool", db, off, bit, 1, v, r), r)
           /\ mem' = r.dev.db /\ mmem' = r.dev.m

\* The outcome r of a read_db that returned, with an empty bytearray as the
\* data it returned: the case write_bool tests for.
EmptyRead(r) == IF r.exc = "none" THEN [r EXCEPT !.ret = <<>>] ELSE r

\* write_bool whose read of the byte gave back an empty bytearray; the call
\* is recorded with the number of bytes that were read, 0.
WriteBoolEmpty(dbs, offs, bits) ==
    /\ nops < MaxOps
    /\ \E db \in dbs, off \in offs, bit \in bits, v \in BOOLEAN, p \in Plan2(Here) :
        \E rd \in {EmptyRead(read_db(Here, Dev(mem, mmem), db, off, 1, p[1], p[2]))} :
         \E r \in {write_bool_modify(rd, db, off, bit, v, p[3])} :
           /\ Done(Rec("write_bool", db, off, bit, 0, v, r), r)
           /\ mem' = r.dev.db /\ mmem' = r.dev.m

\* ------------------------------------------------------------- the agent's tools
\* An optional argument of a tool that was not given (db_number, bit_offset:
\* Optional[int] = None).
Missing == -1

\* data_type.upper()
upper(t) ==
    CASE t = "bool" -> "BOOL"
      [] t = "int" -> "INT"
      [] t = "real" -> "REAL"
      [] OTHER -> t

\* The value argument of write_plc_data, which the tool converts: a number
\* or boolean v (num), or a text that is not a number.
Arg(num, v) == [num |-> num, v |-> v]

\* bool(value): a text that is not empty is true.
bool_of(a) == [exc |-> "none", v |-> IF a.num THEN a.v ELSE TRUE]
\* int(value), float(value): a text that is not a number raises ValueError.
int_of(a) == [exc |-> IF a.num THEN "none" ELSE "ValueError", v |-> a.v]
float_of(a) == [exc |-> IF a.num THEN "none" ELSE "ValueError", v |-> a.v]

\* "plc_handler.connect(); if not plc_handler.is_connected: raise
\* PLCConnectionError" on the outcome r of connect().
tool_connected_or_raise(r) ==
    IF r.exc # "none" THEN r
    ELSE IF ~r.c.is_connected
    THEN [r EXCEPT !.exc = "PLCConnectionError", !.ret = "none"]
    ELSE [r EXCEPT !.ret = "none"]

\* The start of both tools: connect the shared client if it is not connected.
tool_connect(c, o) ==
    IF ~c.is_connected
    THEN tool_connected_or_raise(connect(c, o))
    ELSE [c |-> c, exc |-> "none", ret |-> "none",
          msg |-> NoMessage, calls |-> <<>>]

\* A tool returns a string: its prefix (kind), whether an operation of the
\* client was called, what was raised inside the tool, and the value the
\* client returned.
tool_return(b, kind, called, value) ==
    [b EXCEPT !.exc = "none",
              !.ret = [kind |-> kind, called |-> called, raised |-> b.exc,
                       value |-> value]]

\* The except clauses of a tool without "except Exception": only the two
\* errors of the client are turned into a string.
tool_except_PLCOnly(b, called) ==
    IF b.exc \in {"PLCConnectionError", "PLCReadWriteError"}
    THEN tool_return(b, "ERROR PLC", called, "none")
    ELSE b

\* The except clauses of a tool: "ERROR PLC: ..." for the two errors of the
\* client, "ERROR: ..." for every other exception.
tool_except(b, called) ==
    IF b.exc \in {"PLCConnectionError", "PLCReadWriteError"}
    THEN tool_return(b, "ERROR PLC", called, "none")
    ELSE tool_return(b, "ERROR", called, "none")

\* The outcome r of the client's operation, after the transport calls of
\* the tool's own connect, e.
tool_called(e, r) == [r EXCEPT !.calls = e.calls \o @]

\* read_plc_data after the client's read, whose outcome is b.
read_plc_data_return(b) ==
    IF b.exc # "none" THEN tool_except(b, TRUE)
    ELSE tool_return(b, "SUCCESS", TRUE, b.ret)

\* read_plc_data after its connect, whose outcome is e.
read_plc_data_body(e, data_type, db, off, bit, ro) ==
    IF e.exc # "none" THEN tool_except(e, FALSE)
    ELSE CASE upper(data_type) = "BOOL" ->
                IF db = Missing \/ bit = Missing
                THEN tool_return(e, "ERROR", FALSE, "none")
                ELSE read_plc_data_return(
                        tool_called(e, read_bool(e.c, e.dev, db, off, bit, "ok", ro)))
           [] upper(data_type) = "INT" ->
                IF db = Missing
                THEN tool_return(e, "ERROR", FALSE, "none")
                ELSE read_plc_data_return(
                        tool_called(e, read_int(e.c, e.dev, db, off, "ok", ro)))
           [] upper(data_type) = "REAL" ->
                IF db = Missing
                THEN tool_return(e, "ERROR", FALSE, "none")
                ELSE read_plc_data_return(
                        tool_called(e, read_real(e.c, e.dev, db, off, "ok", ro)))
           [] OTHER -> tool_return(e, "ERROR", FALSE, "none")

read_plc_data(c, dev, data_type, db, off, bit, co, ro) ==
    read_plc_data_body(Started(tool_connect(c, co), dev), data_type, db, off,
                       bit, ro)

\* write_plc_data after the client's write, whose outcome is b: "if success".
write_plc_data_return(b) ==
    IF b.exc # "none" THEN tool_except(b, TRUE)
    ELSE IF b.ret = TRUE THEN tool_return(b, "SUCCESS", TRUE, b.ret)
    ELSE tool_return(b, "ERROR", TRUE, b.ret)

\* The conversion k of the value raised: the client is not called.
tool_unconverted(e, k) == tool_except([e EXCEPT !.exc = k.exc], FALSE)

\* write_plc_data after its connect, whose outcome is e.
write_plc_data_body(e, data_type, a, db, off, bit, ro, wo) ==
    IF e.exc # "none" THEN tool_except(e, FALSE)
    ELSE CASE upper(data_type) = "BOOL" ->
                IF db = Missing \/ bit = Missing
                THEN tool_return(e, "ERROR", FALSE, "none")
                ELSE write_plc_data_return(
                        tool_called(e, write_bool(e.c, e.dev, db, off, bit,
                                                  bool_of(a).v, "ok", ro, wo)))
           [] upper(data_type) = "INT" ->
                IF db = Missing
                THEN tool_return(e, "ERROR", FALSE, "none")
                ELSE IF int_of(a).exc # "none"
                THEN tool_unconverted(e, int_of(a))
                ELSE write_plc_data_return(
                        tool_called(e, write_int(e.c, e.dev, db, off,
                                                 int_of(a).v, "ok", wo)))
           [] upper(data_type) = "REAL" ->
                IF db = Missing
                THEN tool_return(e, "ERROR", FALSE, "none")
                ELSE IF float_of(a).exc # "none"
                THEN tool_unconverted(e, float_of(a))
                ELSE write_plc_data_return(
                        tool_called(e, write_real(e.c, e.dev, db, off,
                                                  float_of(a).v, "ok", wo)))
           [] OTHER -> tool_return(e, "ERROR", FALSE, "none")

write_plc_data(c, dev, data_type, a, db, off, bit, co, ro, wo) ==
    write_plc_data_body(Started(tool_connect(c, co), dev), data_type, a, db,
                        off, bit, ro, wo)

\* The record of a call of a tool: Rec with the data type and the value
\* argument in val.
\* A request q is <<data_type, db_number, bit_offset>>.
ReadPlcData(reqs, offs) ==
    /\ nops < MaxOps
    /\ \E q \in reqs, off \in offs, p \in Plan1(Here) :
        \E r \in {read_plc_data(Here, Dev(mem, mmem), q[1], q[2], off, q[3],
                                 p[1], p[2])} :
           /\ Done(Rec("read_plc_data", q[2], off, q[3], 0, [type |-> q[1]], r), r)
           /\ mem' = r.dev.db /\ mmem' = r.dev.m

WritePlcData(reqs, args, offs) ==
    /\ nops < MaxOps
    /\ \E q \in reqs, off \in offs, p \in Plan2(Here) :
        \E a \in args[upper(q[1])] :
         \E r \in {write_plc_data(Here, Dev(mem, mmem), q[1], a, q[2], off, q[3],
                                  p[1], p[2], p[3])} :
           /\ Done(Rec("write_plc_data", q[2], off, q[3], 0,
                       [type |-> q[1], num |-> a.num], r), r)
           /\ mem' = r.dev.db /\ mmem' = r.dev.m

\* ------------------------------------------------------------- concurrent callers
\* The callers that share the client, and a caller that has not called yet.
Threads == {1, 2}

Idle == [pc |-> "idle", bit |-> 0, val |-> FALSE, buf |-> <<>>,
         exc |-> "none", ret |-> "none"]

\* The first statement of write_bool run by caller t: the read_db of the
\* byte into the caller's local buffer.  A failure ends the call.
WriteBoolRead(t, db, off, bits) ==
    /\ thr[t].pc = "idle"
    /\ \E bit \in bits, v \in BOOLEAN, p \in Plan1(Here) :
        /\ \A u \in Threads \ {t} : thr[u].pc # "idle" => thr[u].bit # bit
        /\ \E r \in {read_db(Here, Dev(mem, mmem), db, off, 1, p[1], p[2])} :
            /\ is_connected' = r.c.is_connected
            /\ client' = r.c.client
            /\ created' = r.c.created
            /\ destroyed' = r.c.destroyed
            /\ mem' = r.dev.db /\ mmem' = r.dev.m
            /\ calls' = r.calls
            /\ thr' = [thr EXCEPT ![t] =
                   [pc |-> IF r.exc = "none" THEN "read" ELSE "done",
                    bit |-> bit, val |-> v,
                    buf |-> IF r.exc = "none" THEN r.ret ELSE <<>>,
                    exc |-> r.exc, ret |-> "none"]]
            /\ hist' = Append(hist, [t |-> t, step |-> "read"])
            /\ UNCHANGED <<host, lib, last, prev, prevexc, nops>>

\* The rest of write_bool run by caller t: the bit is set in the local
\* buffer and the buffer is written to the device as it is now.
WriteBoolWrite(t, db, off) ==
    /\ thr[t].pc = "read"
    /\ \E wo \in IoChoices(Here) :
        \E r \in {write_bool_modify(
                      [c |-> Here, dev |-> Dev(mem, mmem), exc |-> "none",
                       ret |-> thr[t].buf, msg |-> NoMessage, calls |-> <<>>],
                      db, off, thr[t].bit, thr[t].val, wo)} :
            /\ is_connected' = r.c.is_connected
            /\ client' = r.c.client
            /\ created' = r.c.created
            /\ destroyed' = r.c.destroyed
            /\ mem' = r.dev.db /\ mmem' = r.dev.m
            /\ calls' = r.calls
            /\ thr' = [thr EXCEPT ![t].pc = "done", ![t].exc = r.exc,
                                  ![t].ret = r.ret]
            /\ hist' = Append(hist, [t |-> t, step |-> "write"])
            /\ UNCHANGED <<host, lib, last, prev, prevexc, nops>>

\* ------------------------------------------------------------- construction
\* __init__: client = None, is_connected = False, then connect() with
\* PLCConnectionError caught and is_connected forced to False.
Blank == Conn(FALSE, None, 0, {})

\* The try / except of __init__ around its connect(), whose outcome is r.
constructed(r) ==
    IF r.exc = "PLCConnectionError"
    THEN [r EXCEPT !.c.is_connected = FALSE, !.exc = "none", !.ret = "none"]
    ELSE [r EXCEPT !.ret = "none"]

construct(o) == constructed(connect(Blank, o))

Init ==
    /\ host \in BOOLEAN
    /\ lib \in BOOLEAN
    /\ \E b \in InitBytes :
          /\ mem = [d \in DBs |-> [i \in Cells |-> b]]
          /\ mmem = [i \in Cells |-> b]
    /\ \E o \in ConnOutcomes :
          \E r \in {construct(o)} :
             /\ is_connected = r.c.is_connected
             /\ client = r.c.client
             /\ created = r.c.created
             /\ destroyed = r.c.destroyed
             /\ calls = r.calls
             /\ last = Rec("init", 0, 0, 0, 0, 0, r)
    /\ prev = "none"
    /\ prevexc = "none"
    /\ nops = 0
    /\ thr = [t \in Threads |-> Idle]
    /\ hist = <<>>

\* ------------------------------------------------------------- Spec
\* Every public operation of the client, each on one valid address: the raw
\* accessors on byte 0 of the last Data Block and of the Merker area (one or
\* two bytes are read from the Data Block), the
\* typed operations on byte 0 of Data Block 1, the BOOL ones on its bit 0.
DoReadDb == ReadDb({NumDB}, {0}, {1, 2})
DoWriteDb == WriteDb({NumDB}, {0}, {<<90>>})
DoReadM == ReadM({0}, {1})
DoWriteM == WriteM({0}, {<<90>>})
DoReadReal == ReadReal({1}, {0})
DoWriteReal == WriteReal({1}, {0}, {F32(0, 128, 4781507)})
DoReadInt == ReadInt({1}, {0})
DoWriteInt == WriteInt({1}, {0}, {-2})
DoReadBool == ReadBool({1}, {0}, {0})
DoWriteBool == WriteBool({1}, {0}, {0})

Next ==
    \/ Connect
    \/ Disconnect
    \/ DoReadDb
    \/ DoWriteDb
    \/ DoReadM
    \/ DoWriteM
    \/ DoReadReal
    \/ DoWriteReal
    \/ DoReadInt
    \/ DoWriteInt
    \/ DoReadBool
    \/ DoWriteBool

Spec == Init /\ [][Next]_vars

\* ------------------------------------------------------------- SpecBool
\* The BOOL operations on every bit offset of byte 1 of the last Data Block.
BitReadBool == ReadBool({NumDB}, {1}, BitOffsets)
BitWriteBool == WriteBool({NumDB}, {1}, BitOffsets)

NextBool ==
    \/ BitReadBool
    \/ BitWriteBool

SpecBool == Init /\ [][NextBool]_vars

\* ------------------------------------------------------------- SpecAddr
\* The typed operations on addresses that are not valid: a bit offset
\* outside 0..7, a negative byte offset.
BadBits == {-1, 8}
BadOffsets == {-1}

AddrReadBool == ReadBool({1}, {0} \cup BadOffsets, {0} \cup BadBits)
AddrWriteBool == WriteBool({1}, {0} \cup BadOffsets, {0} \cup BadBits)
AddrReadInt == ReadInt({1}, BadOffsets)
AddrWriteInt == WriteInt({1}, BadOffsets, {-2})
AddrReadReal == ReadReal({1}, BadOffsets)
AddrWriteReal == WriteReal({1}, BadOffsets, {F32(0, 128, 4781507)})

NextAddr ==
    \/ AddrReadBool
    \/ AddrWriteBool
    \/ AddrReadInt
    \/ AddrWriteInt
    \/ AddrReadReal
    \/ AddrWriteReal

SpecAddr == Init /\ [][NextAddr]_vars

\* ------------------------------------------------------------- SpecInt
\* The INT operations on bytes 1 and 2 of the last Data Block, with values
\* from both ends and the middle of the 16-bit range.
IntVals == {-32768, -257, -2, -1, 0, 1, 255, 256, 4660, 32767}

IntReadInt == ReadInt({NumDB}, {1})
IntWriteInt == WriteInt({NumDB}, {1}, IntVals)

NextInt ==
    \/ IntReadInt
    \/ IntWriteInt

SpecInt == Init /\ [][NextInt]_vars

\* ------------------------------------------------------------- SpecReal
\* The REAL operations on bytes 0..3 of the last Data Block, with finite
\* single precision values: both zeros, the smallest subnormal, 1.0, -2.5,
\* the single nearest pi, the largest finite value and a value whose four
\* bytes all differ.
RealVals == {F32(0, 0, 0), F32(1, 0, 0), F32(0, 0, 1), F32(0, 127, 0),
             F32(1, 128, 2097152), F32(0, 128, 4788187),
             F32(0, 254, 8388607), F32(1, 129, 1193046)}

RealReadReal == ReadReal({NumDB}, {0})
RealWriteReal == WriteReal({NumDB}, {0}, RealVals)

NextReal ==
    \/ RealReadReal
    \/ RealWriteReal

SpecReal == Init /\ [][NextReal]_vars

\* ------------------------------------------------------------- SpecRace
\* Two callers run write_bool at the same time on different bits of byte 1
\* of the last Data Block; the read step and the write step of each are
\* taken in any order the callers' own order allows.
RaceBits == {0, 3, 7}
RaceOff == 1

RaceRead == \E t \in Threads : WriteBoolRead(t, NumDB, RaceOff, RaceBits)
RaceWrite == \E t \in Threads : WriteBoolWrite(t, NumDB, RaceOff)

NextRace ==
    \/ RaceRead
    \/ RaceWrite

SpecRace == Init /\ [][NextRace]_vars

\* ------------------------------------------------------------- SpecSize
\* The raw reads with a size that is not positive.
BadSizes == {0, -1}

SizeReadDb == ReadDb({NumDB}, {0}, BadSizes)
SizeReadM == ReadM({0}, BadSizes)

NextSize ==
    \/ SizeReadDb
    \/ SizeReadM

SpecSize == Init /\ [][NextSize]_vars

\* ------------------------------------------------------------- SpecRaw
\* The raw writes of one and of two bytes, at the start and in the middle of
\* every Data Block and of the Merker area.
RawBufs == {<<90>>, <<17, 34>>}
RawOffsets == {0, 2}

RawWriteDb == WriteDb(DBs, RawOffsets, RawBufs)
RawWriteM == WriteM(RawOffsets, RawBufs)

NextRaw ==
    \/ RawWriteDb
    \/ RawWriteM

SpecRaw == Init /\ [][NextRaw]_vars

\* ------------------------------------------------------------- SpecEmpty
\* write_bool on every bit of byte 1 of the last Data Block when the read of
\* the byte gives back an empty buffer, and read_bool of the same bits.
EmptyWriteBool == WriteBoolEmpty({NumDB}, {1}, BitOffsets)
EmptyReadBool == ReadBool({NumDB}, {1}, BitOffsets)

NextEmpty ==
    \/ EmptyWriteBool
    \/ EmptyReadBool

SpecEmpty == Init /\ [][NextEmpty]_vars

\* ------------------------------------------------------------- SpecAgent
\* The two PLC tools of the agent on the shared client, and a disconnect()
\* of that client.  The requests name every supported data type, in upper
\* or lower case, and one that is not supported, with the Data Block given
\* or not and bit 0, a bit offset outside 0..7 or none; the values are ones
\* that convert and a text that does not.
AgentRequests ==
    {<<"bool", 1, 0>>, <<"BOOL", 1, 8>>, <<"BOOL", 1, Missing>>,
     <<"BOOL", Missing, 0>>, <<"int", 1, Missing>>, <<"INT", Missing, Missing>>,
     <<"REAL", 1, Missing>>, <<"REAL", Missing, 0>>, <<"WORD", 1, 0>>}
AgentArgs ==
    [t \in {"BOOL", "INT", "REAL", "WORD"} |->
        CASE t = "BOOL" -> {Arg(TRUE, TRUE), Arg(FALSE, FALSE)}
          [] t = "INT" -> {Arg(TRUE, 4660), Arg(TRUE, 40000), Arg(FALSE, 0)}
          [] OTHER -> {Arg(TRUE, F32(0, 128, 4781507)), Arg(FALSE, F32(0, 0, 0))}]

AgentReadPlcData == ReadPlcData(AgentRequests, {0})
AgentWritePlcData == WritePlcData(AgentRequests, AgentArgs, {0})

NextAgent ==
    \/ AgentReadPlcData
    \/ AgentWritePlcData
    \/ Disconnect

SpecAgent == Init /\ [][NextAgent]_vars

\* ------------------------------------------------------------- vocabulary
\* The three connection states of the client.
StDisconnected == ~is_connected /\ client = None
StConnected == is_connected /\ client # None
StSimulated == is_connected /\ client = None

StateOf(ic, cl) ==
    IF ~ic /\ cl = None THEN "Disconnected"
    ELSE IF ic /\ cl # None THEN "Connected"
    ELSE IF ic THEN "Simulated"
    ELSE "Invalid"

ReadOps == {"read_db", "read_m", "read_real", "read_int", "read_bool"}
WriteOps == {"write_db", "write_m", "write_real", "write_int", "write_bool"}
DataOps == ReadOps \cup WriteOps
BoolOps == {"read_bool", "write_bool"}
TypedOps == {"read_real", "write_real", "read_int", "write_int"} \cup BoolOps

\* The transport calls that move data.
IoCalls == {"db_read", "db_write", "read_area", "write_area"}

NoIo(cs) == \A i \in 1..Len(cs) : cs[i].f \notin IoCalls
IoFaulted(cs) == \E i \in 1..Len(cs) : cs[i].f \in IoCalls /\ cs[i].res # "ok"
Attempted(cs) == cs # <<>> /\ cs[1].f = "Client"
\* A connect attempt in cs that did not end with a live session.
AttemptFailed(cs) ==
    /\ Attempted(cs)
    /\ \E i \in 1..Len(cs) :
          cs[i].f \in {"Client", "connect", "get_connected"} /\ cs[i].res # "ok"

\* A public call is made by this step.
Called == nops' = nops + 1

ValidAddress(l) == l.off >= 0 /\ (l.op \in BoolOps => l.bit \in BitOffsets)

\* Bit k of byte b.
BitOf(b, k) == (b \div Pow2(k)) % 2

\* ------------------------------------------------------------- C1
\* C1: on a client with no host configured, whatever calls were made before,
\* no call on a valid address raises, connect returns true, read_bool /
\* read_int / read_real return false / 0 / 0.0, a raw read of n bytes returns
\* n zero bytes and every write returns true.
C1_SimulatedDeterminism ==
    (~host /\ ValidAddress(last)) =>
        /\ last.exc = "none"
        /\ last.op = "connect" => last.ret = TRUE
        /\ last.op = "read_bool" => last.ret = FALSE
        /\ last.op = "read_int" => last.ret = 0
        /\ last.op = "read_real" => last.ret = F32(0, 0, 0)
        /\ last.op \in {"read_db", "read_m"} =>
              /\ Len(last.ret) = last.size
              /\ \A i \in 1..Len(last.ret) : last.ret[i] = 0
        /\ last.op \in WriteOps => last.ret = TRUE

\* A read_bool that follows a write_bool to the same address, with the
\* library importable and no host set.
C1_Witness ==
    /\ ~host /\ lib
    /\ prev = "write_bool" /\ last.op = "read_bool"
    /\ last.exc = "none" /\ last.ret = FALSE

C3_ConnectIdempotent ==
    [][(Called /\ last'.op = "connect" /\ is_connected) =>
          /\ last'.exc = "none"
          /\ last'.ret = TRUE
          /\ calls' = <<>>
          /\ UNCHANGED <<is_connected, client, created, destroyed, mem, mmem>>
      ]_vars

\* Two connect() calls in a row on a client with a real session.
C3_Witness ==
    /\ prev = "connect" /\ last.op = "connect"
    /\ StConnected
    /\ calls = <<>>

\* ------------------------------------------------------------- C4
\* C4: the object is always in one of the three states; its state changes
\* only Disconnected -> Connected (a connect attempt the transport accepted),
\* Disconnected -> Simulated (no library or no host), and Connected or
\* Simulated -> Disconnected by disconnect(); a read or write on a Connected
\* or Simulated client leaves the state as it is.
C4_Step ==
    LET s == StateOf(is_connected, client)
        t == StateOf(is_connected', client')
    IN /\ s # t =>
             \/ /\ s = "Disconnected" /\ t = "Connected"
                /\ lib /\ host
                /\ last'.op # "disconnect"
                /\ Attempted(calls') /\ ~AttemptFailed(calls')
             \/ /\ s = "Disconnected" /\ t = "Simulated"
                /\ ~lib \/ ~host
                /\ last'.op # "disconnect"
             \/ /\ s \in {"Connected", "Simulated"} /\ t = "Disconnected"
                /\ last'.op = "disconnect"
       /\ (Called /\ last'.op \in DataOps /\ s \in {"Connected", "Simulated"})
             => t = s

C4_StateMachine ==
    /\ [](StateOf(is_connected, client) # "Invalid")
    /\ [][C4_Step]_vars

\* Connected, then Disconnected by disconnect(), then Connected again.
C4_Witness ==
    /\ prev = "disconnect" /\ last.op = "connect"
    /\ StConnected
    /\ created = 2 /\ destroyed = {1}

\* ------------------------------------------------------------- C5
\* C5: a data operation called while is_connected is clear first tries to
\* connect (with library and host, the first transport call is the creation
\* of a handle; without, the client becomes Simulated); when that attempt
\* fails the operation raises PLCConnectionError, makes no transport read or
\* write, returns nothing and leaves the device as it was.
C5_ConnectBeforeData ==
    [][(Called /\ last'.op \in DataOps /\ ~is_connected) =>
          /\ (lib /\ host) => Attempted(calls')
          /\ ~(lib /\ host) => is_connected' /\ calls' = <<>>
          /\ AttemptFailed(calls') =>
                /\ last'.exc = "PLCConnectionError"
                /\ NoIo(calls')
                /\ last'.ret = "none"
                /\ mem' = mem /\ mmem' = mmem
      ]_vars

\* A write_bool after disconnect() whose reconnection failed.
C5_Witness ==
    /\ prev = "disconnect" /\ last.op = "write_bool"
    /\ last.exc = "PLCConnectionError"
    /\ AttemptFailed(calls)

C7_DisconnectAnytime ==
    [][(Called /\ last'.op = "disconnect") =>
          /\ last'.exc = "none"
          /\ ~is_connected' /\ client' = None
          /\ ~StConnected => calls' = <<>>
          /\ last.op = "disconnect" =>
                /\ calls' = <<>>
                /\ UNCHANGED <<is_connected, client, created, destroyed,
                               mem, mmem>>
      ]_vars

\* disconnect() twice in a row on a client that had a real session.
C7_Witness ==
    /\ prev = "disconnect" /\ last.op = "disconnect"
    /\ created = 1 /\ destroyed = {1}
    /\ calls = <<>>

\* ------------------------------------------------------------- C8
\* C8: a write_bool on a valid bit offset that ends on a Connected client
\* changes at most the addressed bit of the addressed byte: the other seven
\* bits of that byte, every other byte of every Data Block and the Merker
\* area are the same after the call as before it.
C8_BitIsolation ==
    [][(Called /\ last'.op = "write_bool" /\ last'.bit \in BitOffsets
          /\ last'.db \in DBs /\ last'.off \in Cells
          /\ is_connected' /\ client' # None) =>
          /\ mmem' = mmem
          /\ \A d \in DBs, i \in Cells :
                (d # last'.db \/ i # last'.off) => mem'[d][i] = mem[d][i]
          /\ \A k \in BitOffsets \ {last'.bit} :
                BitOf(mem'[last'.db][last'.off], k)
                    = BitOf(mem[last'.db][last'.off], k)
      ]_vars

\* Bit 2 of a byte holding 165 was cleared: the byte holds 161.
C8_Witness ==
    /\ last.op = "write_bool" /\ last.exc = "none"
    /\ last.bit = 2 /\ last.val = FALSE
    /\ StConnected
    /\ mem[last.db][last.off] = 161

\* ------------------------------------------------------------- C9
\* A write_bool that returned true, and then a read_bool of the same bit
\* that returned.
C9_RoundTrip ==
    /\ Called
    /\ last.op = "write_bool" /\ last.exc = "none" /\ last.ret = TRUE
    /\ last.bit \in BitOffsets
    /\ last'.op = "read_bool" /\ last'.exc = "none"
    /\ last'.db = last.db /\ last'.off = last.off /\ last'.bit = last.bit

\* C9 as stated: in any configuration, the read_bool returns the value the
\* write_bool wrote.
C9_Original ==
    [][C9_RoundTrip => last'.ret = last.val]_vars

\* C9 as amended: on a Connected client the read_bool returns the value the
\* write_bool wrote; on a Simulated client it returns false whatever was
\* written.
C9_Amended ==
    [][C9_RoundTrip =>
          /\ StConnected => last'.ret = last.val
          /\ StSimulated => last'.ret = FALSE
          /\ StConnected \/ StSimulated
      ]_vars

\* Bit 1 of a byte holding 165 was set on a Connected client and then read.
C9_Witness ==
    /\ prev = "write_bool" /\ last.op = "read_bool"
    /\ last.exc = "none" /\ last.bit = 1 /\ last.ret = TRUE
    /\ StConnected
    /\ mem[last.db][last.off] = 167

\* ------------------------------------------------------------- C10
\* C10: a typed operation on an address that is not valid (a BOOL bit offset
\* outside 0..7, a negative byte offset) fails with ValidationError and makes
\* no transport read or write.
C10_ValidationFirst ==
    (last.op \in TypedOps /\ ~ValidAddress(last)) =>
        /\ last.exc = "ValidationError"
        /\ NoIo(calls)

\* ------------------------------------------------------------- C11
\* C11 as stated: on a client with no host configured the state is Simulated
\* after construction and after every public call.
C11_Original ==
    ~host => StSimulated

\* C11 as amended: on a client with no host configured the state is never
\* Connected; it is Simulated after construction and after every connect,
\* read and write, and Disconnected after every disconnect(), and no call
\* reaches the transport.
C11_Amended ==
    ~host =>
        /\ ~StConnected
        /\ last.op # "disconnect" => StSimulated
        /\ last.op = "disconnect" => StDisconnected
        /\ calls = <<>> /\ created = 0

\* A read on a host-less client that disconnect() had left Disconnected.
C11_Witness ==
    /\ ~host /\ lib
    /\ prev = "disconnect" /\ last.op \in ReadOps
    /\ StSimulated

\* ------------------------------------------------------------- C12
\* The connect attempts on the transport among the calls cs: each starts
\* with the creation of a handle.
Attempts(cs) == Cardinality({i \in 1..Len(cs) : cs[i].f = "Client"})

\* C12: a read or write called while is_connected is clear (after
\* disconnect(), or after a failed connect) makes exactly one connect
\* attempt, before its first transport read or write: with library and host
\* the handle is created first and once, without them the client becomes
\* Simulated and the transport is not touched.  A read or write called on a
\* Connected or Simulated client makes no connect attempt.  No operation,
\* write_bool with its two steps included, makes more than one.
C12_ReconnectOnDemand ==
    [][(Called /\ last'.op \in DataOps) =>
          /\ Attempts(calls') <= 1
          /\ is_connected => Attempts(calls') = 0
          /\ (~is_connected /\ lib /\ host) =>
                /\ Attempts(calls') = 1
                /\ calls'[1].f = "Client"
          /\ (~is_connected /\ ~(lib /\ host)) =>
                /\ calls' = <<>>
                /\ is_connected' /\ client' = None
      ]_vars

\* A write_bool after disconnect() that reconnected once and then made its
\* read and its write.
C12_Witness ==
    /\ prev = "disconnect" /\ last.op = "write_bool" /\ last.exc = "none"
    /\ Attempts(calls) = 1
    /\ Len(calls) = 5
    /\ calls[4].f = "db_read" /\ calls[5].f = "db_write"

\* ------------------------------------------------------------- C13
\* A failed connect attempt raises PLCConnectionError and a faulted transport
\* read or write raises PLCReadWriteError, out of the entry point that made it.
C13_Propagates ==
    /\ AttemptFailed(calls) => last.exc = "PLCConnectionError"
    /\ IoFaulted(calls) => last.exc = "PLCReadWriteError"

\* C13 as stated: that holds of every entry point, the constructor included.
C13_Original ==
    last.op \in DataOps \cup {"connect", "init"} => C13_Propagates

\* C13 as amended: that holds of connect() and of every read and write; the
\* constructor is the exception: it catches the PLCConnectionError of its
\* connect attempt, returns normally and leaves the client Disconnected.
C13_Amended ==
    /\ last.op \in DataOps \cup {"connect"} => C13_Propagates
    /\ (last.op = "init" /\ AttemptFailed(calls)) =>
          /\ last.exc = "none"
          /\ StDisconnected

\* The first call on a client whose constructor failed to connect: its own
\* connect attempt (the second handle) fails too, and that failure is raised.
C13_Witness ==
    /\ prev = "init" /\ last.op \in DataOps
    /\ created = 2
    /\ AttemptFailed(calls)
    /\ last.exc = "PLCConnectionError"

\* ------------------------------------------------------------- C14
\* The 16-bit two's complement pattern of v.
Word16(v) == IF v >= 0 THEN v ELSE v + 65536

\* C14: on a Connected client a write_int of v in -32768..32767 that returns
\* stores the high-order byte of v's two's complement at off and the
\* low-order byte at off + 1 and changes no other byte of the device, and a
\* read_int of the same address right after it returns v.
C14_IntRoundTrip ==
    [][(Called /\ is_connected' /\ client' # None) =>
          /\ (last'.op = "write_int" /\ last'.exc = "none"
                /\ last'.val \in -32768..32767) =>
                /\ mem'[last'.db][last'.off] = Word16(last'.val) \div 256
                /\ mem'[last'.db][last'.off + 1] = Word16(last'.val) % 256
                /\ mmem' = mmem
                /\ \A d \in DBs, i \in Cells :
                      (d # last'.db \/ i \notin {last'.off, last'.off + 1})
                          => mem'[d][i] = mem[d][i]
          /\ (last.op = "write_int" /\ last.exc = "none"
                /\ last'.op = "read_int" /\ last'.exc = "none"
                /\ last'.db = last.db /\ last'.off = last.off) =>
                last'.ret = last.val
      ]_vars

\* -257 was written and read back: the two bytes hold 254 and 255.
C14_Witness ==
    /\ prev = "write_int" /\ last.op = "read_int"
    /\ last.exc = "none" /\ last.ret = -257
    /\ StConnected
    /\ mem[last.db][last.off] = 254 /\ mem[last.db][last.off + 1] = 255

\* ------------------------------------------------------------- C15
\* The latest call was write_bool(1, 0, 0, true), it returned, and the
\* client is Connected.
C15_BitWritten ==
    /\ last.op = "write_bool" /\ last.exc = "none"
    /\ last.db = 1 /\ last.off = 0 /\ last.bit = 0 /\ last.val = TRUE
    /\ StConnected

\* C15: on a Connected client, write_bool(1, 0, 0, true) on bytes 0 and 1 of
\* DB 1 holding zero leaves them holding 1 and 0; read_bool(1, 0, 0) right
\* after it returns true and read_int(1, 0) right after it returns 256.  In
\* general the word a read_int returns has the byte at its offset as the
\* high-order byte and the next byte as the low-order byte.
C15_CrossTypeLayout ==
    [][Called =>
          /\ (C15_BitWritten' /\ mem[1][0] = 0 /\ mem[1][1] = 0) =>
                mem'[1][0] = 1 /\ mem'[1][1] = 0
          /\ (C15_BitWritten /\ mem[1][0] = 1 /\ mem[1][1] = 0
                /\ last'.exc = "none" /\ last'.db = 1 /\ last'.off = 0) =>
                /\ (last'.op = "read_bool" /\ last'.bit = 0) => last'.ret = TRUE
                /\ last'.op = "read_int" => last'.ret = 256
          /\ (last'.op = "read_int" /\ last'.exc = "none"
                /\ is_connected' /\ client' # None) =>
                Word16(last'.ret) = mem'[last'.db][last'.off] * 256
                                      + mem'[last'.db][last'.off + 1]
      ]_vars

\* read_int(1, 0) returned 256 right after write_bool(1, 0, 0, true).
C15_Witness ==
    /\ prev = "write_bool" /\ last.op = "read_int"
    /\ last.exc = "none" /\ last.ret = 256
    /\ last.db = 1 /\ last.off = 0
    /\ StConnected
    /\ mem[1][0] = 1 /\ mem[1][1] = 0

\* ------------------------------------------------------------- C16
\* C16: on a Connected client a write_real of a finite single precision
\* value that returns stores its 32-bit pattern (sign, exponent, mantissa)
\* high-order byte first at off..off + 3 and changes no other byte of the
\* device, and a read_real of the same address right after it returns a value
\* with the same pattern.
C16_FloatRoundTrip ==
    [][(Called /\ is_connected' /\ client' # None) =>
          /\ (last'.op = "write_real" /\ last'.exc = "none"
                /\ last'.val.e < 255) =>
                /\ (mem'[last'.db][last'.off] * 256
                       + mem'[last'.db][last'.off + 1]) * 256
                       + mem'[last'.db][last'.off + 2]
                     = (last'.val.s * 256 + last'.val.e) * 32768
                           + last'.val.m \div 256
                /\ mem'[last'.db][last'.off + 3] = last'.val.m % 256
                /\ mmem' = mmem
                /\ \A d \in DBs, i \in Cells :
                      (d # last'.db \/ i \notin last'.off..(last'.off + 3))
                          => mem'[d][i] = mem[d][i]
          /\ (last.op = "write_real" /\ last.exc = "none"
                /\ last'.op = "read_real" /\ last'.exc = "none"
                /\ last'.db = last.db /\ last'.off = last.off) =>
                last'.ret = last.val
      ]_vars

\* A negative value whose four bytes are 192, 146, 52, 86 was written and
\* read back.
C16_Witness ==
    /\ prev = "write_real" /\ last.op = "read_real"
    /\ last.exc = "none" /\ last.ret = F32(1, 129, 1193046)
    /\ StConnected
    /\ mem[last.db][0] = 192 /\ mem[last.db][1] = 146
    /\ mem[last.db][2] = 52 /\ mem[last.db][3] = 86

\* ------------------------------------------------------------- C17
\* Both concurrent write_bool calls have returned true.
BothTrue ==
    \A t \in Threads :
        thr[t].pc = "done" /\ thr[t].exc = "none" /\ thr[t].ret = TRUE

\* The byte the callers write to, and whether it holds caller t's bit as
\* caller t wrote it.
RaceByte == mem[NumDB][RaceOff]
Reflects(t) == BitOf(RaceByte, thr[t].bit) = (IF thr[t].val THEN 1 ELSE 0)

\* The caller whose write step came last, and whether both read steps came
\* before both write steps.
LastWriter == hist[Len(hist)].t
ReadsFirst == hist[1].step = "read" /\ hist[2].step = "read"

\* C17: when two callers have run write_bool concurrently on two bits of one
\* byte of a Connected client and both calls returned true, the byte holds
\* the bit of the caller that wrote last; it holds both bits when one call's
\* write step came before the other's read step; and when both read steps
\* came before both write steps the bit of the caller that wrote first holds
\* what the last writer had read, not what the first writer wrote: that write
\* is lost.  The witness is a state where it is.
C17_ReadModifyWriteHazard ==
    (BothTrue /\ StConnected) =>
        /\ Reflects(LastWriter)
        /\ ~ReadsFirst => \A t \in Threads : Reflects(t)
        /\ ReadsFirst =>
              \A t \in Threads \ {LastWriter} :
                  BitOf(RaceByte, thr[t].bit)
                      = BitOf(thr[LastWriter].buf[1], thr[t].bit)

\* Both calls returned true and the byte does not hold the bit one of them
\* wrote.
C17_Witness ==
    /\ BothTrue /\ StConnected
    /\ \E t \in Threads : ~Reflects(t)

\* ------------------------------------------------------------- C18
\* C18: on a client with no host configured or without the transport
\* library, no handle is ever created or released, the client never holds
\* one and no call ever reaches the transport; and a connect() on the
\* Disconnected client returns true and leaves it Simulated.
C18_NoTransport ==
    /\ []((~lib \/ ~host) =>
             /\ created = 0 /\ destroyed = {}
             /\ client = None
             /\ calls = <<>>)
    /\ [][(Called /\ (~lib \/ ~host) /\ last'.op = "connect"
             /\ ~is_connected /\ client = None) =>
             /\ last'.exc = "none"
             /\ last'.ret = TRUE
             /\ is_connected' /\ client' = None
         ]_vars

\* A connect() after disconnect() with a host configured and no library.
C18_Witness ==
    /\ ~lib /\ host
    /\ prev = "disconnect" /\ last.op = "connect"
    /\ last.exc = "none"
    /\ StSimulated

\* ------------------------------------------------------------- C19
\* C19: a raw read of a Data Block or of the Merker area with a size that is
\* not positive fails with ValidationError, makes no transport call and
\* returns no buffer.
C19_SizeValidated ==
    (last.op \in {"read_db", "read_m"} /\ last.size <= 0) =>
        /\ last.exc = "ValidationError"
        /\ NoIo(calls)

\* ------------------------------------------------------------- C20
\* C20: every handle the client has created is the one it holds while
\* Connected, or the client has destroyed it.
C20_NoHandleLeak ==
    \A h \in 1..created :
        \/ is_connected /\ client = h
        \/ h \in destroyed

\* ------------------------------------------------------------- C21
\* What an area holds after data was stored verbatim at start: the bytes of
\* data at start..start + Len(data) - 1, and what it held everywhere else.
Verbatim(area, start, data) ==
    [i \in Cells |-> IF i \in start..(start + Len(data) - 1)
                     THEN data[i - start + 1] ELSE area[i]]

\* C21: on a Connected client a write_db of an n-byte buffer that returns
\* true changes bytes byte_offset..byte_offset + n - 1 of that Data Block to
\* the buffer's bytes and nothing else in any Data Block or in the Merker
\* area; a write_m that returns true changes that range of the Merker area to
\* the buffer's bytes and nothing else there or in any Data Block.
C21_RawWriteFrame ==
    [][(Called /\ last'.exc = "none" /\ is_connected' /\ client' # None) =>
          /\ last'.op = "write_db" =>
                /\ last'.ret = TRUE
                /\ mem'[last'.db] = Verbatim(mem[last'.db], last'.off, last'.val)
                /\ \A d \in DBs \ {last'.db} : mem'[d] = mem[d]
                /\ mmem' = mmem
          /\ last'.op = "write_m" =>
                /\ last'.ret = TRUE
                /\ mmem' = Verbatim(mmem, last'.off, last'.val)
                /\ mem' = mem
      ]_vars

\* Two bytes written to the middle of the Merker area after a write to a
\* Data Block: the Merker area holds them and the Data Block keeps its own.
C21_Witness ==
    /\ prev = "write_db" /\ last.op = "write_m" /\ last.exc = "none"
    /\ last.off = 2 /\ last.val = <<17, 34>>
    /\ StConnected
    /\ mmem[1] = 165 /\ mmem[2] = 17 /\ mmem[3] = 34
    /\ \E d \in DBs : mem[d][0] = 90 /\ mem[d][2] = 165

\* ------------------------------------------------------------- C22
\* C22: the message of every PLCReadWriteError names the address of the
\* access that failed: the Data Block area, the block number and the byte
\* offset for an access to a Data Block, the Merker area and the byte offset
\* for an access to the Merker area.
C22_ErrorNamesAddress ==
    last.exc = "PLCReadWriteError" =>
        /\ last.op \in {"read_m", "write_m"} =>
              /\ last.msg.space = "M"
              /\ last.off \in last.msg.off
        /\ last.op \in DataOps \ {"read_m", "write_m"} =>
              /\ last.msg.space = "DB"
              /\ last.db \in last.msg.db
              /\ last.off \in last.msg.off

\* ------------------------------------------------------------- C23
\* What a device that answers every read with zero bytes gives back for the
\* call l: zero bytes, their decoded values, and true for every write.
ZeroAnswer(l) ==
    CASE l.op \in WriteOps -> TRUE
      [] l.op = "read_bool" -> FALSE
      [] l.op = "read_int" -> 0
      [] l.op = "read_real" -> F32(0, 0, 0)
      [] OTHER -> Zeros(l.size)

\* The bytes the read l addresses are all zero on the device.
ZeroOnDevice(l) ==
    LET area == IF l.op = "read_m" THEN mmem ELSE mem[l.db]
    IN \A i \in 0..(l.size - 1) : area[l.off + i] = 0

\* C23: a data call on a valid address gives the same result on a Simulated
\* client as on a Connected client whose device accepts the request and
\* answers the read with zero bytes: no error, and the return value of the
\* zero-answering device (values range over the type that is written).
C23_SimulatedAsZeroDevice ==
    [][(Called /\ last'.op \in DataOps /\ ValidAddress(last')) =>
          /\ StSimulated =>
                /\ last'.exc = "none"
                /\ last'.ret = ZeroAnswer(last')
                /\ NoIo(calls')
          /\ (/\ StConnected
              /\ ~IoFaulted(calls')
              /\ last'.op \in ReadOps => ZeroOnDevice(last')) =>
                /\ last'.exc = "none"
                /\ last'.ret = ZeroAnswer(last')
      ]_vars

\* A read_int that the device of a Connected client answered with two zero
\* bytes.
C23_Witness ==
    /\ StConnected
    /\ last.op = "read_int" /\ last.exc = "none" /\ last.ret = 0
    /\ calls # <<>> /\ calls[1].f = "db_read" /\ calls[1].res = "ok"
    /\ mem[last.db][last.off] = 0 /\ mem[last.db][last.off + 1] = 0

\* ------------------------------------------------------------- C24
\* The transport call tc moves one byte at (db, off) of the call l.
OneByteAt(tc, f, l) ==
    tc.f = f /\ tc.db = l.db /\ tc.start = l.off /\ tc.size = 1

\* C24: a write_bool on a Connected client, on a valid address, makes one
\* transport read of one byte at (db, byte_offset) and then, when the read
\* succeeded, one transport write of one byte at the same address and no
\* other transport call; when the read failed, no write is made, the device
\* memory is unchanged and PLCReadWriteError reaches the caller.
C24_ReadThenWrite ==
    [][(Called /\ last'.op = "write_bool" /\ StConnected /\ ValidAddress(last')) =>
          /\ Len(calls') >= 1
          /\ OneByteAt(calls'[1], "db_read", last')
          /\ calls'[1].res = "ok" =>
                /\ Len(calls') = 2
                /\ OneByteAt(calls'[2], "db_write", last')
                /\ Len(calls'[2].data) = 1
          /\ calls'[1].res # "ok" =>
                /\ Len(calls') = 1
                /\ mem' = mem /\ mmem' = mmem
                /\ last'.exc = "PLCReadWriteError"
      ]_vars

\* A write_bool whose read of the byte failed after an earlier write_bool
\* had set a bit of it: the byte on the device still holds that bit alone.
C24_Witness ==
    /\ prev = "write_bool" /\ last.op = "write_bool"
    /\ last.exc = "PLCReadWriteError" /\ last.val = TRUE
    /\ Len(calls) = 1 /\ calls[1].f = "db_read" /\ calls[1].res # "ok"
    /\ \E d \in DBs : mem[d][1] \in {1, 2, 4, 8, 16, 32, 64, 128}

\* ------------------------------------------------------------- C25
\* The byte that holds the value v in bit k and zero in its other bits.
BitAlone(k, v) == IF v THEN Pow2(k) ELSE 0

\* C25: a write_bool on a valid address whose read of the byte returned an
\* empty buffer raises nothing for it: unless the transport fails, it
\* returns true, and the one byte it writes to the device holds the
\* requested value in the targeted bit and zero in its other seven bits.
C25_EmptyBufferDefence ==
    [][(/\ Called /\ last'.op = "write_bool" /\ last'.size = 0
        /\ ValidAddress(last')
        /\ ~IoFaulted(calls') /\ ~AttemptFailed(calls')) =>
          /\ last'.exc = "none"
          /\ last'.ret = TRUE
          /\ \A i \in 1..Len(calls') :
                calls'[i].f = "db_write" =>
                   calls'[i].data = <<BitAlone(last'.bit, last'.val)>>
          /\ (is_connected' /\ client' # None) =>
                /\ Len(SelectSeq(calls', LAMBDA tc : tc.f = "db_write")) = 1
                /\ mem'[last'.db][last'.off] = BitAlone(last'.bit, last'.val)
      ]_vars

\* A write_bool of false to bit 2 of a byte that held 0xA5, whose read came
\* back empty: the byte on the device is now zero.
C25_Witness ==
    /\ last.op = "write_bool" /\ last.size = 0 /\ last.exc = "none"
    /\ last.bit = 2 /\ last.val = FALSE
    /\ prev = "init"
    /\ StConnected
    /\ Len(calls) >= 2 /\ calls[Len(calls)].f = "db_write"
    /\ mem[last.db][last.off] = 0
    /\ mem[last.db][0] = 165

\* ------------------------------------------------------------- C26
\* The width in bytes of the typed operation op.
WidthOf(op) ==
    CASE op \in BoolOps -> 1
      [] op \in {"read_int", "write_int"} -> 2
      [] OTHER -> 4

\* C26: on a Connected client write_int and write_real make no transport
\* read and exactly one transport write, of 2 and 4 bytes at (db,
\* byte_offset); read_bool, read_int and read_real make no transport write
\* and exactly one transport read, of 1, 2 and 4 bytes at (db, byte_offset).
C26_OnlyBoolReadsBeforeWrite ==
    [][(/\ Called /\ StConnected /\ ValidAddress(last')
        /\ last'.op \in TypedOps \ {"write_bool"}) =>
          /\ Len(calls') = 1
          /\ calls'[1].f = (IF last'.op \in WriteOps THEN "db_write" ELSE "db_read")
          /\ calls'[1].h = client
          /\ calls'[1].db = last'.db
          /\ calls'[1].start = last'.off
          /\ calls'[1].size = WidthOf(last'.op)
      ]_vars

\* A write_real on a Connected client after a write_int: one db_write of
\* four bytes and nothing else on the transport.
C26_Witness ==
    /\ StConnected
    /\ prev = "write_int" /\ last.op = "write_real" /\ last.exc = "none"
    /\ Len(calls) = 1 /\ calls[1].f = "db_write" /\ calls[1].size = 4
    /\ Len(calls[1].data) = 4

\* ------------------------------------------------------------- C27
\* Every transport call in cs is made on the handle h.
OnHandle(cs, h) == \A i \in 1..Len(cs) : cs[i].h = h

\* C27: a Connected client stays on its handle until disconnect() is
\* called, and that after a data operation that failed with
\* PLCReadWriteError too: every later data operation, and every connect(),
\* makes its transport calls on the same handle, makes no connect attempt,
\* creates no handle and leaves the client Connected on that handle.  A
\* handle is created only for a client that holds none.
C27_NoAutomaticRecovery ==
    [][/\ (Called /\ StConnected /\ last'.op \in DataOps \cup {"connect"}) =>
             /\ ~Attempted(calls')
             /\ OnHandle(calls', client)
             /\ created' = created
             /\ destroyed' = destroyed
             /\ client' = client /\ is_connected'
       /\ (Called /\ created' # created) =>
             /\ ~is_connected /\ client = None
             /\ Attempted(calls')
      ]_vars

\* A read_int that was sent on the handle made at construction, after a
\* write_int on that handle had failed with PLCReadWriteError.
C27_Witness ==
    /\ prev = "write_int" /\ prevexc = "PLCReadWriteError"
    /\ last.op = "read_int"
    /\ StConnected /\ client = 1 /\ created = 1 /\ destroyed = {}
    /\ Len(calls) = 1 /\ calls[1].f = "db_read" /\ calls[1].h = 1

\* ------------------------------------------------------------- C28
\* C28: when the connect attempt of the constructor fails, the constructor
\* does not raise and leaves the client not connected, and the operation
\* that follows is served by the simulation: on a valid address it raises
\* nothing, makes no transport call, a read returns zero values and a write
\* returns true.
C28_FallbackToSimulation ==
    [][(Called /\ last.op = "init" /\ AttemptFailed(calls)) =>
          /\ last.exc = "none"
          /\ ~is_connected
          /\ (last'.op \in DataOps /\ ValidAddress(last')) =>
                /\ last'.exc = "none"
                /\ last'.ret = ZeroAnswer(last')
                /\ calls' = <<>>
      ]_vars

\* ------------------------------------------------------------- C29
\* C29: after construction and after every public call of the one caller,
\* returned or raised, a client that is not connected holds no handle; a
\* handle that is held is one the transport made and that was not destroyed,
\* and it is held only by a connected client with the library and a host; a
\* connected client holds no handle exactly when the library or the host is
\* missing, which is the Simulated state.
C29_HandleFlagConsistency ==
    /\ ~is_connected => client = None
    /\ client # None =>
          /\ is_connected
          /\ lib /\ host
          /\ client \in 1..created
          /\ client \notin destroyed
    /\ is_connected => (client = None <=> (~lib \/ ~host))

\* A data operation that raised PLCConnectionError on a client that had been
\* disconnected: the client is left not connected and without a handle,
\* while the transport has made two handles.
C29_Witness ==
    /\ prev = "disconnect" /\ last.op \in DataOps
    /\ last.exc = "PLCConnectionError"
    /\ ~is_connected /\ client = None
    /\ created = 2

\* ------------------------------------------------------------- C30
Tools == {"read_plc_data", "write_plc_data"}

\* The call l of a tool names a data type the tool does not support, or
\* lacks the db_number or the bit_offset its data type needs.
BadRequest(l) ==
    \/ upper(l.val.type) \notin {"BOOL", "INT", "REAL"}
    \/ l.db = Missing
    \/ upper(l.val.type) = "BOOL" /\ l.bit = Missing

\* C30: read_plc_data and write_plc_data raise nothing.  What they return
\* starts with "ERROR PLC:" when PLCConnectionError or PLCReadWriteError was
\* raised inside them; it starts with "ERROR", and no transport read or
\* write is made, when the data type is not supported or db_number or
\* bit_offset is missing; and write_plc_data returns a "SUCCESS" string only
\* if an operation of the client was called and returned true.
C30_ToolsReturnStrings ==
    last.op \in Tools =>
        /\ last.exc = "none"
        /\ last.ret.kind \in {"SUCCESS", "ERROR PLC", "ERROR"}
        /\ last.ret.raised \in {"PLCConnectionError", "PLCReadWriteError"} =>
              last.ret.kind = "ERROR PLC"
        /\ BadRequest(last) =>
              /\ last.ret.kind \in {"ERROR PLC", "ERROR"}
              /\ ~last.ret.called
              /\ NoIo(calls)
        /\ (last.op = "write_plc_data" /\ last.ret.kind = "SUCCESS") =>
              /\ last.ret.called
              /\ last.ret.raised = "none"
              /\ last.ret.value = TRUE

\* A write_plc_data of an INT that does not fit 16 bits, after a tool call
\* whose connect to the controller failed: set_int raised, the tool returned
\* an "ERROR" string and nothing was written.
C30_Witness ==
    /\ prev \in Tools /\ prevexc = "none"
    /\ last.op = "write_plc_data" /\ last.exc = "none"
    /\ upper(last.val.type) = "INT" /\ last.val.num
    /\ last.ret.kind = "ERROR" /\ last.ret.called
    /\ last.ret.raised = "struct.error"
    /\ NoIo(calls)
    /\ Attempted(calls) /\ StConnected

====
